---- MODULE Spec2Model ----
(***************************************************************************)
(* Model of windows/flutter_mcp_client_plugin_c_api.cpp: the C entry point *)
(* FlutterMcpClientPluginCApiRegisterWithRegistrar, which resolves the     *)
(* opaque registrar handle through the PluginRegistrarManager singleton    *)
(* and forwards the typed registrar to                                     *)
(* FlutterMcpClientPlugin::RegisterWithRegistrar.                          *)
(*                                                                         *)
(* One invocation is the sequence of evaluation steps C++ fixes for        *)
(*     F( GetInstance()->GetRegistrar<T>(registrar) );                     *)
(* each step is one action, and `trace` records what each step did.        *)
(***************************************************************************)
EXTENDS Integers, Sequences, FiniteSets, TLC

\* Bounds of the model.
MaxCalls == 3      \* invocations of the entry point the host makes
NumHandles == 2    \* distinct valid registrar handles the host owns

\* Handle 0 stands for a null or malformed FlutterDesktopPluginRegistrarRef.
ValidHandles == 1..NumHandles
Handles == 0..NumHandles
IsValid(h) == h \in ValidHandles

\* Threads the host may choose to call the entry point on.
Threads == {"platform", "other"}

VARIABLES
    pc,          \* position inside the entry point, "idle" between calls
    registrar,   \* the parameter `registrar` of the running call: <<>> or <<h>>
    manager,     \* temporary: result of GetInstance(): <<>> or <<"instance">>
    typed,       \* temporary: result of GetRegistrar<T>(): <<>> or <<wrapper>>
    caller,      \* thread the running call executes on: <<>> or <<t>>
    started,     \* number of invocations begun
    completed,   \* number of invocations that returned to the host
    instance,    \* PluginRegistrarManager singleton constructed?
    registrars,  \* handles the manager holds a typed wrapper for
    plugins,     \* plugins[h]: plugin instances added to the registrar of h
    trace        \* history of the steps taken, in order

vars == <<pc, registrar, manager, typed, caller, started, completed,
          instance, registrars, plugins, trace>>

\* The typed registrar the manager hands out for a handle.
Wrapper(h) == [type |-> "PluginRegistrarWindows", ref |-> h]

\* One step of call number `started` on the calling thread; `h` is the
\* handle passed along in this step (if any), `r` the typed registrar.
Event(kind, h, r) ==
    [ev |-> kind, call |-> started, thread |-> caller[1], handle |-> h, reg |-> r]

Init ==
    /\ pc = "idle"
    /\ registrar = <<>>
    /\ manager = <<>>
    /\ typed = <<>>
    /\ caller = <<>>
    /\ started = 0
    /\ completed = 0
    /\ instance = FALSE
    /\ registrars = {}
    /\ plugins = [h \in Handles |-> 0]
    /\ trace = <<>>

\* The host calls the exported function with handle h on thread t.
Enter(h, t) ==
    /\ pc = "idle"
    /\ started < MaxCalls
    /\ pc' = "entered"
    /\ registrar' = <<h>>
    /\ caller' = <<t>>
    /\ started' = started + 1
    /\ trace' = Append(trace, [ev |-> "enter", call |-> started + 1, thread |-> t,
                               handle |-> <<h>>, reg |-> <<>>])
    /\ UNCHANGED <<manager, typed, completed, instance, registrars, plugins>>

\* flutter::PluginRegistrarManager::GetInstance()
GetInstance ==
    /\ pc = "entered"
    /\ pc' = "haveManager"
    /\ manager' = <<"instance">>
    /\ instance' = TRUE
    /\ trace' = Append(trace, Event("instance", <<>>, <<>>))
    /\ UNCHANGED <<registrar, typed, caller, started, completed, registrars, plugins>>

\* What a callee can do with the registrar it is handed.  A valid handle is
\* served; a null or malformed one is undefined behaviour in the callee: it
\* either faults the process or carries on with the garbage it was given.
Outcomes(h) == IF IsValid(h) THEN {"ok"} ELSE {"ok", "fault"}

\* The process died inside a callee; nothing runs afterwards.
Fault(kind, h) ==
    /\ pc' = "faulted"
    /\ trace' = Append(trace, Event(kind, h, typed))
    /\ UNCHANGED <<registrar, manager, typed, caller, started, completed,
                   instance, registrars, plugins>>

\* The manager answers with the typed registrar it keeps for handle h,
\* creating it on first use.
Resolved(h) ==
    /\ pc' = "haveRegistrar"
    /\ typed' = <<Wrapper(h)>>
    /\ registrars' = registrars \cup {h}
    /\ trace' = Append(trace, Event("lookup", <<h>>, <<Wrapper(h)>>))
    /\ UNCHANGED <<registrar, manager, caller, started, completed,
                   instance, plugins>>

\* Variant: the shim checks the handle first and returns quietly on a bad one.
ResolveRegistrar_Validating ==
    /\ pc = "haveManager"
    /\ LET h == registrar[1] IN
          \/ IsValid(h) /\ Resolved(h)
          \/ /\ ~IsValid(h)
             /\ pc' = "returning"
             /\ UNCHANGED <<registrar, manager, typed, caller, started, completed,
                            instance, registrars, plugins, trace>>

\* ->GetRegistrar<flutter::PluginRegistrarWindows>(registrar): the handle is
\* handed to the manager exactly as received, with no check of its own.
ResolveRegistrar ==
    /\ pc = "haveManager"
    /\ LET h == registrar[1] IN
       \E o \in Outcomes(h) :
          \/ o = "ok" /\ Resolved(h)
          \/ o = "fault" /\ Fault("faultInManager", <<h>>)

\* Variant: the first typed registrar is cached in a static and reused.
ForwardedRegistrar_Cached ==
    LET first == SelectSeq(trace, LAMBDA e : e.ev = "lookup")[1] IN first.reg

\* The value the shim passes on: the result of this call's lookup.
ForwardedRegistrar == typed

\* Variants of the forwarding step a slip in the shim would produce.
\* The plugin routine is called a second time while already registering.
RegisterWithRegistrar_Twice ==
    /\ pc \in {"haveRegistrar", "inPlugin"}
    /\ Len(SelectSeq(trace, LAMBDA e : e.ev = "register" /\ e.call = started)) < 2
    /\ pc' = "inPlugin"
    /\ trace' = Append(trace, Event("register", <<>>, typed))
    /\ UNCHANGED <<registrar, manager, typed, caller, started, completed,
                   instance, registrars, plugins>>

\* The forwarding call is left out.
RegisterWithRegistrar_Skipped ==
    /\ pc = "haveRegistrar"
    /\ pc' = "returning"
    /\ UNCHANGED <<registrar, manager, typed, caller, started, completed,
                   instance, registrars, plugins, trace>>

\* The plugin routine is entered before the handle has been resolved.
RegisterWithRegistrar_Early ==
    /\ pc = "haveManager"
    /\ pc' = "inPlugin"
    /\ typed' = <<Wrapper(registrar[1])>>
    /\ trace' = Append(trace, Event("register", <<>>, <<Wrapper(registrar[1])>>))
    /\ UNCHANGED <<registrar, manager, caller, started, completed,
                   instance, registrars, plugins>>

\* The registration is handed to another thread and the shim returns at once.
RegisterWithRegistrar_Async ==
    /\ pc = "haveRegistrar"
    /\ pc' = "returning"
    /\ \E t \in Threads \ {caller[1]} :
          trace' = Append(trace, [ev |-> "register", call |-> started, thread |-> t,
                                  handle |-> <<>>, reg |-> typed])
    /\ UNCHANGED <<registrar, manager, typed, caller, started, completed,
                   instance, registrars, plugins>>

\* A once-only guard: a registrar already forwarded is not forwarded again.
RegisterWithRegistrar_OnceOnly ==
    /\ pc = "haveRegistrar"
    /\ LET seen == \E i \in DOMAIN trace :
                      trace[i].ev = "register" /\ trace[i].reg = typed IN
          \/ /\ ~seen
             /\ pc' = "inPlugin"
             /\ trace' = Append(trace, Event("register", <<>>, typed))
          \/ /\ seen
             /\ pc' = "returning"
             /\ trace' = trace
    /\ UNCHANGED <<registrar, manager, typed, caller, started, completed,
                   instance, registrars, plugins>>

\* FlutterMcpClientPlugin::RegisterWithRegistrar( <typed registrar> ): the
\* call is made with the value the lookup produced.
RegisterWithRegistrar ==
    /\ pc = "haveRegistrar"
    /\ pc' = "inPlugin"
    /\ trace' = Append(trace, Event("register", <<>>, ForwardedRegistrar))
    /\ UNCHANGED <<registrar, manager, typed, caller, started, completed,
                   instance, registrars, plugins>>

\* The body of the plugin's registration routine: the plugin is added to the
\* registrar it was given, and the routine returns.
PluginRegistered ==
    /\ pc = "inPlugin"
    /\ LET arg == trace[Len(trace)].reg
           h == arg[1].ref IN
       \E o \in Outcomes(h) :
          \/ /\ o = "ok"
             /\ pc' = "returning"
             /\ plugins' = [plugins EXCEPT ![h] = @ + 1]
             /\ trace' = Append(trace, Event("registered", <<>>, arg))
             /\ UNCHANGED <<registrar, manager, typed, caller, started, completed,
                            instance, registrars>>
          \/ /\ o = "fault"
             /\ Fault("faultInPlugin", <<>>)

\* Variant: the handle is kept in a static after the call.
Return_KeepsHandle ==
    /\ pc = "returning"
    /\ pc' = "idle"
    /\ manager' = <<>>
    /\ typed' = <<>>
    /\ caller' = <<>>
    /\ completed' = completed + 1
    /\ trace' = Append(trace, Event("return", <<>>, <<>>))
    /\ UNCHANGED <<registrar, started, instance, registrars, plugins>>

\* The closing brace: the frame is popped, nothing is returned.
Return ==
    /\ pc = "returning"
    /\ pc' = "idle"
    /\ registrar' = <<>>
    /\ manager' = <<>>
    /\ typed' = <<>>
    /\ caller' = <<>>
    /\ completed' = completed + 1
    /\ trace' = Append(trace, Event("return", <<>>, <<>>))
    /\ UNCHANGED <<started, instance, registrars, plugins>>

Next ==
    \/ \E h \in Handles, t \in Threads : Enter(h, t)
    \/ GetInstance
    \/ ResolveRegistrar
    \/ RegisterWithRegistrar
    \/ PluginRegistered
    \/ Return

Spec == Init /\ [][Next]_vars

\* The call runs straight through on the calling thread: once entered, each
\* step of the shim is taken, and the callees are taken to terminate.
FairSpec ==
    /\ Spec
    /\ WF_vars(GetInstance)
    /\ WF_vars(ResolveRegistrar)
    /\ WF_vars(RegisterWithRegistrar)
    /\ WF_vars(PluginRegistered)
    /\ WF_vars(Return)

----------------------------------------------------------------------------
\* Reading the history.

\* The steps of kind `kind` taken by call n, in order.
Steps(kind, n) == SelectSeq(trace, LAMBDA e : e.ev = kind /\ e.call = n)
Count(kind, n) == Len(Steps(kind, n))
\* All steps of one kind, over all calls.
AllSteps(kind) == SelectSeq(trace, LAMBDA e : e.ev = kind)
\* The handle the host passed to call n.
HandleOf(n) == Steps("enter", n)[1].handle[1]
Returned(n) == Count("return", n) = 1
Calls == 1..started
InCall == pc \notin {"idle", "faulted"}

\* C1: every invocation of the entry point with a valid handle invokes
\* FlutterMcpClientPlugin::RegisterWithRegistrar exactly once before it
\* returns: never twice at any point of the call, and once by the return.
C1_ExactlyOncePerCall ==
    \A n \in Calls :
        IsValid(HandleOf(n)) =>
            /\ Count("register", n) <= 1
            /\ Returned(n) => Count("register", n) = 1

C1_Witness ==
    \E n \in Calls :
        IsValid(HandleOf(n)) /\ Returned(n) /\ Count("register", n) = 1

\* C2: the argument of every plugin registration call is the typed registrar
\* that GetRegistrar returned for the handle of that same call, in that same
\* call: not the result of another call's lookup, nor of another handle.
C2_ForwardsOwnLookup ==
    \A i \in DOMAIN trace :
        trace[i].ev = "register" =>
            \E j \in 1..(i - 1) :
                /\ trace[j].ev = "lookup"
                /\ trace[j].call = trace[i].call
                /\ trace[j].handle = <<HandleOf(trace[i].call)>>
                /\ trace[j].reg = trace[i].reg
                /\ Count("lookup", trace[i].call) = 1

\* Two calls with different handles have each forwarded their own registrar.
C2_Witness ==
    \E i, j \in DOMAIN trace :
        /\ i < j
        /\ trace[i].ev = "register" /\ trace[j].ev = "register"
        /\ trace[i].reg # trace[j].reg
        /\ HandleOf(trace[i].call) # HandleOf(trace[j].call)

\* C3: the entry point has no failure of its own and checks nothing: every
\* call is still running, or has returned after handing its handle to the
\* manager and completing the forwarding call, or ended in a fault raised
\* inside the manager or the plugin on a handle that was not valid.  No call
\* returns with the registration left out.
C3_ForwardOrFault ==
    \A n \in Calls :
        \/ n = started /\ InCall
        \/ /\ Returned(n)
           /\ Count("lookup", n) = 1
           /\ Steps("lookup", n)[1].handle = <<HandleOf(n)>>
           /\ Count("register", n) = 1
           /\ Count("registered", n) = 1
        \/ /\ n = started /\ pc = "faulted"
           /\ ~IsValid(HandleOf(n))
           /\ trace[Len(trace)].call = n
           /\ \/ /\ trace[Len(trace)].ev = "faultInManager"
                 /\ trace[Len(trace)].handle = <<HandleOf(n)>>
              \/ /\ trace[Len(trace)].ev = "faultInPlugin"
                 /\ Count("register", n) = 1

\* A call with a malformed handle was forwarded all the same and returned,
\* and a later one faulted.
C3_Witness ==
    /\ pc = "faulted"
    /\ \E n \in Calls : ~IsValid(HandleOf(n)) /\ Returned(n)

\* C4: the handle is received and passed on, nothing else: the parameter
\* keeps the value the host passed for the whole call, no variable of the
\* shim holds anything once the call has returned, and the only step that is
\* handed the handle is the manager's lookup, once per call.
C4_HandleUntouched ==
    /\ pc # "idle" => registrar = <<HandleOf(started)>>
    /\ pc = "idle" =>
          registrar = <<>> /\ manager = <<>> /\ typed = <<>> /\ caller = <<>>
    /\ \A i \in DOMAIN trace :
          trace[i].handle # <<>> =>
             /\ trace[i].ev \in {"enter", "lookup", "faultInManager"}
             /\ trace[i].handle = <<HandleOf(trace[i].call)>>
    /\ \A n \in Calls : Count("lookup", n) + Count("faultInManager", n) <= 1

C4_Witness ==
    /\ pc = "idle"
    /\ completed >= 1
    /\ \E n \in Calls : Returned(n) /\ Count("lookup", n) = 1

\* C5: before any call no plugin is registered with any registrar; once a
\* call with a valid handle has returned, the manager holds the registrar
\* of that handle and the plugin is registered with it.
C5_RegisteredAfterCall ==
    /\ started = 0 =>
          /\ \A h \in Handles : plugins[h] = 0
          /\ registrars = {} /\ ~instance
    /\ \A n \in Calls :
          Returned(n) /\ IsValid(HandleOf(n)) =>
             /\ instance
             /\ HandleOf(n) \in registrars
             /\ plugins[HandleOf(n)] >= 1

C5_Witness ==
    \E n \in Calls :
        Returned(n) /\ IsValid(HandleOf(n)) /\ plugins[HandleOf(n)] >= 1

\* C6: within a call the steps come in one order: the manager singleton is
\* obtained, then the handle is resolved, and only then is the plugin's
\* registration routine called; it never starts without the typed registrar.
C6_StepOrder ==
    /\ \A i \in DOMAIN trace :
          trace[i].ev = "register" =>
             \E j \in 1..(i - 1) :
                /\ trace[j].ev = "lookup" /\ trace[j].call = trace[i].call
                /\ \E k \in 1..(j - 1) :
                      trace[k].ev = "instance" /\ trace[k].call = trace[i].call
    /\ \A j \in DOMAIN trace :
          trace[j].ev \in {"lookup", "faultInManager"} =>
             \E k \in 1..(j - 1) :
                trace[k].ev = "instance" /\ trace[k].call = trace[j].call
    /\ pc = "inPlugin" => typed # <<>> /\ manager # <<>>

C6_Witness ==
    /\ pc = "inPlugin"
    /\ Count("instance", started) = 1
    /\ Count("lookup", started) = 1
    /\ Count("register", started) = 1

\* Every step of a call ran on the thread the host called on.
C7_AllOnCaller ==
    \A i \in DOMAIN trace :
        trace[i].thread = Steps("enter", trace[i].call)[1].thread

\* At a return, the lookup and the registration of that call are over, and
\* no step of that call follows.
C7_DoneAtReturn ==
    \A i \in DOMAIN trace :
        trace[i].ev = "return" =>
            /\ \E j \in 1..(i - 1) :
                  trace[j].ev = "lookup" /\ trace[j].call = trace[i].call
            /\ \E j \in 1..(i - 1) :
                  trace[j].ev = "registered" /\ trace[j].call = trace[i].call
            /\ \A j \in DOMAIN trace : j > i => trace[j].call > trace[i].call

\* C7: the call is synchronous.  By the time it returns, the lookup and the
\* plugin's registration of that call have both finished, every step of the
\* call ran on the thread the host called on, and nothing of the call runs
\* after the return; and a call that has begun comes to an end, given that
\* the manager and the plugin routine terminate.
C7_Synchronous ==
    /\ [](C7_AllOnCaller /\ C7_DoneAtReturn)
    /\ InCall ~> ~InCall

C7_Witness ==
    /\ completed >= 1
    /\ InCall
    /\ \E i, j \in DOMAIN trace :
          /\ trace[i].ev = "registered" /\ trace[j].ev = "return"
          /\ trace[i].call = trace[j].call /\ i < j

\* C8: the shim keeps nothing between calls and has no once-only guard:
\* after n invocations have returned the plugin's registration routine has
\* been called n times, once per invocation and with that invocation's own
\* registrar, also when a handle is passed again.
C8_OnePerInvocation ==
    /\ pc = "idle" => Len(AllSteps("register")) = completed
    /\ Len(AllSteps("register")) \in {completed, completed + 1}
    /\ \A n \in Calls :
          Returned(n) =>
             /\ Count("register", n) = 1
             /\ Steps("register", n)[1].reg = Steps("lookup", n)[1].reg
             /\ Steps("lookup", n)[1].handle = <<HandleOf(n)>>

\* The same handle was passed twice and forwarded twice.
C8_Witness ==
    /\ pc = "idle"
    /\ \E m, n \in Calls :
          /\ m < n
          /\ HandleOf(m) = HandleOf(n)
          /\ Returned(m) /\ Returned(n)
          /\ Count("register", m) = 1 /\ Count("register", n) = 1

====
